---- MODULE Spec2Model ----
(***************************************************************************)
(* A model of the CWScript code generator:                                 *)
(*   - SymExecVisitor.visit, the lowering of a syntax tree to item         *)
(*     references, map references, opaque fragments and template bindings  *)
(*     (src/cwscript/codegen.py, lines 87-158);                            *)
(*   - ICodegen.generate_code, the push / verify / generate / pop protocol *)
(*     over the context stack (src/cwscript/codegen.py, lines 22-54);      *)
(*   - the top-level loop over contract definitions                        *)
(*     (src/cwscript/main.py, lines 7-10).                                 *)
(*                                                                         *)
(* Python values and syntax nodes are tagged tuples, the tag first, so     *)
(* that any two of them can be compared.  Python strings are TLA+ strings  *)
(* and are concatenated, quoted and searched character by character.       *)
(***************************************************************************)
EXTENDS Naturals, Sequences, FiniteSets, TLC

VARIABLES
    ast,        \* SpecVisit: the syntax node handed to visit
    visitor,    \* SpecVisit: the SymExecVisitor, [env, code]
    res,        \* SpecVisit: what the last call of visit returned
    prev,       \* SpecVisit: what the call of visit before it returned
    nvisits,    \* SpecVisit: calls of visit made so far (capped)
    stdout,     \* SpecVisit / SpecMain: what print() has written
    last,       \* the operation that made the last step
    stack,      \* SpecGen: the context stack of env
    frames,     \* SpecGen: the active generate_code calls, outermost first
    exits,      \* SpecGen: the generate_code calls the last step exited
    calls,      \* SpecGen: top-level generate_code calls made so far
    tree,       \* SpecMain: the top-level nodes of the parsed tree
    todo,       \* SpecMain: the contract definitions still to iterate
    codegen     \* SpecMain: the ContractCodegen of the current iteration

vars == <<ast, visitor, res, prev, nvisits, stdout, last,
          stack, frames, exits, calls, tree, todo, codegen>>

visitVars == <<ast, visitor, res, prev, nvisits>>
genVars   == <<stack, frames, exits, calls>>
mainVars  == <<tree, todo, codegen>>

(***************************************************************************)
(* Bounds.                                                                 *)
(***************************************************************************)
MaxDepth == 3      \* nesting of member accesses and table lookups
MaxLen   == 2      \* length of a list of nodes (clauses, bodies, arguments)
MaxCode  == 1      \* length of the visitor's accumulator list
MaxNest  == 2      \* generate_code calls nested inside _gen_code
MaxCalls == 2      \* top-level generate_code calls on one env
MaxTree  == 3      \* top-level nodes of a parsed tree

SeqUpTo(S, n) == UNION {[1..k -> S] : k \in 0..n}

(***************************************************************************)
(* Python values.                                                          *)
(***************************************************************************)
PyNone          == <<"None">>
PyStr(s)        == <<"str", s>>
PyList(elems)   == <<"list", elems>>
PyTuple(elems)  == <<"tuple", elems>>

\* @dataclass IRMapRef: base_key, keys
IRMapRef(base_key, keys) == <<"IRMapRef", base_key, keys>>
\* @dataclass IRItemRef: key
IRItemRef(key)  == <<"IRItemRef", key>>

\* isinstance(x, cls)
isinstance(x, cls) == x[1] = cls
\* iis(x, cls1, cls2, ...): isinstance against any of the classes
iis(x, classes) == x[1] \in classes

(***************************************************************************)
(* Syntax nodes (cwscript.lang.ast).                                       *)
(***************************************************************************)
Ident(name)                  == <<"Ident", name>>
OtherAst(text)               == <<"OtherAst", text>>   \* a kind visit does not match
MemberAccessExpr(item, member) == <<"MemberAccessExpr", item, member>>
TableLookupExpr(item, key)   == <<"TableLookupExpr", item, key>>
AssignStmt(lhs, rhs)         == <<"AssignStmt", lhs, rhs>>
IfExpr(if_clause, else_if_clauses, else_body) ==
    <<"IfExpr", if_clause, else_if_clauses, else_body>>
FnArg(name, type)            == <<"FnArg", name, type>>
ExecDefn(name, args, body)   == <<"ExecDefn", name, args, body>>

\* str(ast) of an identifier or of a node of another kind: its source text
AstStr(node) == node[2]

(***************************************************************************)
(* str() and repr() of Python values, as an f-string applies them.         *)
(***************************************************************************)
HasChar(s, c) == \E i \in 1..Len(s) : SubSeq(s, i, i) = c

RECURSIVE Escape(_, _)
Escape(s, q) ==
    IF s = "" THEN ""
    ELSE LET h == SubSeq(s, 1, 1)
             e == IF h = "\\" THEN "\\\\"
                  ELSE IF h = q THEN "\\" \o q
                  ELSE h
         IN e \o Escape(SubSeq(s, 2, Len(s)), q)

\* repr of a str: double quotes when it holds ' and no ", else single quotes
ReprStr(s) ==
    LET q == IF HasChar(s, "'") /\ ~HasChar(s, "\"") THEN "\"" ELSE "'"
    IN q \o Escape(s, q) \o q

RECURSIVE PyRepr(_)
RECURSIVE JoinRepr(_)
JoinRepr(elems) ==
    IF Len(elems) = 0 THEN ""
    ELSE IF Len(elems) = 1 THEN PyRepr(elems[1])
    ELSE PyRepr(elems[1]) \o ", " \o JoinRepr(Tail(elems))

PyRepr(x) ==
    CASE x[1] = "None"      -> "None"
      [] x[1] = "str"       -> ReprStr(x[2])
      [] x[1] = "IRItemRef" -> "IRItemRef(key=" \o PyRepr(x[2]) \o ")"
      [] x[1] = "IRMapRef"  -> "IRMapRef(base_key=" \o PyRepr(x[2])
                                 \o ", keys=[" \o JoinRepr(x[3]) \o "])"
      [] x[1] = "list"      -> "[" \o JoinRepr(x[2]) \o "]"
      [] x[1] = "tuple"     -> "(" \o JoinRepr(x[2])
                                 \o (IF Len(x[2]) = 1 THEN ",)" ELSE ")")

\* format(x) inside an f-string: str(x)
PyFormat(x) == IF x[1] = "str" THEN x[2] ELSE PyRepr(x)

\* t[name].render(**ctx): the template's name and its bindings
render(name, ctx) == <<"text", name, ctx>>

(***************************************************************************)
(* SymExecVisitor.visit.                                                   *)
(***************************************************************************)
STATE_ROOT == PyStr("$state")
MSG_ROOT   == PyStr("$msg")

RECURSIVE visit(_, _)

\* a visit of a list that returns the results last node first
visit_list_reversed(self, node) ==
    PyList([i \in 1..Len(node[2]) |-> visit(self, node[2][Len(node[2]) + 1 - i])])

\* if iis(ast, list, tuple): return [self.visit(x) for x in ast]
visit_list(self, node) ==
    PyList([i \in 1..Len(node[2]) |-> visit(self, node[2][i])])

\* if isinstance(ast, ExecDefn): ... t["exec-fn"].render(name, args, body)
visit_ExecDefn(self, node) ==
    LET name == PyStr(AstStr(node[2]))
        args == PyList([i \in 1..Len(node[3][2]) |->
                   PyTuple(<<PyStr(AstStr(node[3][2][i][2])), node[3][2][i][3]>>)])
        body == visit(self, node[4])
    IN render("exec-fn", [name |-> name, args |-> args, body |-> body])

\* if isinstance(ast, IfExpr): ... t["if-expr"].render(**ctx)
visit_IfExpr(self, node) ==
    LET ctx == [if_clause       |-> visit(self, node[2]),
                else_if_clauses |-> visit(self, node[3]),
                else_body       |-> visit(self, node[4])]
    IN render("if-expr", ctx)

\* a template choice that tests for the two reference classes at once
AssignTemplate_anyref(lhs) ==
    IF iis(lhs, {"IRItemRef", "IRMapRef"}) THEN "set-state-item"
    ELSE IF isinstance(lhs, "IRMapRef") THEN "set-state-map"
    ELSE "set-variable"

\* the template an assignment is rendered with, from its lowered left-hand side
AssignTemplate(lhs) ==
    IF isinstance(lhs, "IRItemRef") THEN "set-state-item"
    ELSE IF isinstance(lhs, "IRMapRef") THEN "set-state-map"
    ELSE "set-variable"

\* if isinstance(ast, AssignStmt): ...
visit_AssignStmt(self, node) ==
    LET lhs == visit(self, node[2])
        rhs == visit(self, node[3])
        ctx == [lhs          |-> lhs,
                rhs          |-> rhs,
                lhs_is_ident |-> isinstance(node[2], "Ident"),
                rhs_is_item  |-> isinstance(rhs, "IRItemRef")]
    IN render(AssignTemplate(lhs), ctx)

\* a table lookup that builds the map reference and never appends the key
visit_TableLookupExpr_nokey(self, node) ==
    LET item == visit(self, node[2])
        key  == visit(self, node[3])
    IN IF iis(item, {"IRItemRef"})
       THEN IRMapRef(item[2], <<>>)
       ELSE PyTuple(<<PyStr("lookup"), visit(self, node[2]), visit(self, node[3])>>)

\* if isinstance(ast, TableLookupExpr): ...
visit_TableLookupExpr(self, node) ==
    LET item == visit(self, node[2])
        key  == visit(self, node[3])
    IN IF iis(item, {"IRItemRef"})
       THEN IRMapRef(item[2], <<key>>)
       ELSE PyTuple(<<PyStr("lookup"), visit(self, node[2]), visit(self, node[3])>>)

\* a member access that resolves the message context as it does the state root
visit_MemberAccessExpr_msgref(self, node) ==
    LET item   == visit(self, node[2])
        member == visit(self, node[3])
    IN IF item \in {STATE_ROOT, MSG_ROOT} THEN IRItemRef(member)
       ELSE PyStr(PyFormat(visit(self, node[2])) \o "."
                    \o PyFormat(visit(self, node[3])))

\* if isinstance(ast, MemberAccessExpr): ...
visit_MemberAccessExpr(self, node) ==
    LET item   == visit(self, node[2])
        member == visit(self, node[3])
    IN IF item = STATE_ROOT THEN IRItemRef(member)
       ELSE IF item = MSG_ROOT THEN PyStr("info." \o PyFormat(member))
       ELSE PyStr(PyFormat(visit(self, node[2])) \o "."
                    \o PyFormat(visit(self, node[3])))

\* an identifier lowered through the accumulator list: the text depends on
\* how many items the list holds
visit_Ident_accum(self, node) ==
    PyStr(AstStr(node) \o (IF Len(self.code) = 0 THEN "" ELSE "'"))

\* if isinstance(ast, Ident): return str(ast)
visit_Ident(self, node) == PyStr(AstStr(node))

\* return f"// Omitted: {str(ast)}"
visit_fallback(self, node) == PyStr("// Omitted: " \o AstStr(node))

visit(self, node) ==
    IF node = PyNone THEN PyNone
    ELSE IF iis(node, {"list", "tuple"}) THEN visit_list(self, node)
    ELSE IF isinstance(node, "ExecDefn") THEN visit_ExecDefn(self, node)
    ELSE IF isinstance(node, "IfExpr") THEN visit_IfExpr(self, node)
    ELSE IF isinstance(node, "AssignStmt") THEN visit_AssignStmt(self, node)
    ELSE IF isinstance(node, "TableLookupExpr") THEN visit_TableLookupExpr(self, node)
    ELSE IF isinstance(node, "MemberAccessExpr") THEN visit_MemberAccessExpr(self, node)
    ELSE IF isinstance(node, "Ident") THEN visit_Ident(self, node)
    ELSE visit_fallback(self, node)

\* What one call of visit prints: the rendered text of every function
\* definition it lowers (print(res), line 108), in traversal order.
RECURSIVE visit_prints(_, _)
RECURSIVE prints_of_list(_, _)
prints_of_list(self, elems) ==
    IF Len(elems) = 0 THEN <<>>
    ELSE visit_prints(self, elems[1]) \o prints_of_list(self, Tail(elems))

visit_prints(self, node) ==
    IF node = PyNone THEN <<>>
    ELSE IF iis(node, {"list", "tuple"}) THEN prints_of_list(self, node[2])
    ELSE IF isinstance(node, "ExecDefn")
         THEN visit_prints(self, node[4]) \o <<visit(self, node)>>
    ELSE IF isinstance(node, "IfExpr")
         THEN visit_prints(self, node[2]) \o visit_prints(self, node[3])
                \o visit_prints(self, node[4])
    ELSE IF isinstance(node, "AssignStmt")
         THEN visit_prints(self, node[2]) \o visit_prints(self, node[3])
    ELSE <<>>

(***************************************************************************)
(* The syntax trees the visitor is run on.                                 *)
(***************************************************************************)
IdentNames  == {"$state", "$msg", "a"}
MemberNames == {"count", "sender"}

StateCount == MemberAccessExpr(Ident("$state"), Ident("count"))
MsgSender  == MemberAccessExpr(Ident("$msg"), Ident("sender"))
Literal31  == OtherAst("31")

Atoms == {Ident(n) : n \in IdentNames} \cup {Literal31}
Keys  == {Ident("a"), StateCount, MsgSender}

RECURSIVE Exprs(_)
Exprs(d) ==
    IF d = 0 THEN Atoms
    ELSE LET E == Exprs(d - 1)
         IN E \cup {MemberAccessExpr(e, Ident(m)) : e \in E, m \in MemberNames}
              \cup {TableLookupExpr(e, k) : e \in E, k \in Keys}

RhsSet == {Literal31, Ident("a"), StateCount, MsgSender}

LhsSet == Exprs(MaxDepth - 1)
            \cup {TableLookupExpr(TableLookupExpr(StateCount, Ident("a")), k) : k \in Keys}

Assigns == {AssignStmt(l, r) : l \in LhsSet, r \in RhsSet}

BodyStmts  == {AssignStmt(StateCount, Literal31), AssignStmt(Ident("a"), MsgSender)}
Bodies     == {PyList(s) : s \in SeqUpTo(BodyStmts, MaxLen)}
ClauseSet  == {OtherAst("c1"), OtherAst("c2"), PyList(<<AssignStmt(Ident("a"), StateCount)>>)}
IfExprs    == {IfExpr(c, PyList(cs), e) :
                  c \in ClauseSet, cs \in SeqUpTo(ClauseSet, MaxLen),
                  e \in {PyNone} \cup Bodies}
FnArgs     == {FnArg(Ident("a"), OtherAst("Addr")), FnArg(Ident("n"), OtherAst("u8"))}
ExecDefns  == {ExecDefn(Ident("f"), PyList(xs), b) :
                  xs \in SeqUpTo(FnArgs, MaxLen), b \in Bodies}
ListElems  == {PyNone, Ident("a"), Literal31, StateCount,
               TableLookupExpr(StateCount, Ident("a")),
               ExecDefn(Ident("f"), PyList(<<>>), PyList(<<>>))}
NodeLists  == {PyList(s) : s \in SeqUpTo(ListElems, MaxLen)}
                \cup {PyTuple(s) : s \in SeqUpTo(ListElems, MaxLen)}

Inputs == {PyNone} \cup Exprs(MaxDepth) \cup Assigns \cup IfExprs
            \cup ExecDefns \cup NodeLists

(***************************************************************************)
(* The visitor as a state machine: one syntax node, visited repeatedly,    *)
(* with pushes to and pops from the accumulator list in between.           *)
(***************************************************************************)
Unset == <<"unset">>

\* SymExecVisitor.__init__: self.env = env or Env(); self.code = []
SymExecVisitor == [env |-> "Env", code |-> <<>>]

IdleVisit ==
    /\ ast = PyNone
    /\ visitor = SymExecVisitor
    /\ res = Unset
    /\ prev = Unset
    /\ nvisits = 0

IdleGen ==
    /\ stack = <<>>
    /\ frames = <<>>
    /\ exits = <<>>
    /\ calls = 0

IdleMain ==
    /\ tree = <<>>
    /\ todo = <<>>
    /\ codegen = PyNone

InitVisit ==
    /\ ast \in Inputs
    /\ visitor = SymExecVisitor
    /\ res = Unset
    /\ prev = Unset
    /\ nvisits = 0
    /\ stdout = <<>>
    /\ last = "init"
    /\ IdleGen
    /\ IdleMain

\* a call self.visit(ast) from outside: its result is kept, what it prints
\* goes to stdout, and the visitor is as the call leaves it
Visit ==
    /\ nvisits < 2
    /\ res' = visit(visitor, ast)
    /\ prev' = res
    /\ nvisits' = nvisits + 1
    /\ stdout' = stdout \o visit_prints(visitor, ast)
    /\ last' = "visit"
    /\ UNCHANGED <<ast, visitor, genVars, mainVars>>

PushItems == {"item"}

\* def push(self, item): self.code.append(item)
push(item) ==
    /\ Len(visitor.code) < MaxCode
    /\ visitor' = [visitor EXCEPT !.code = Append(@, item)]
    /\ last' = "push"
    /\ UNCHANGED <<ast, res, prev, nvisits, stdout, genVars, mainVars>>

\* def pop(self, item): self.code.pop(item)   (list.pop takes an index)
\* an index past the end raises IndexError and leaves the list as it is
pop(index) ==
    /\ visitor' = IF index < Len(visitor.code)
                   THEN [visitor EXCEPT !.code =
                           SubSeq(@, 1, index) \o SubSeq(@, index + 2, Len(@))]
                   ELSE visitor
    /\ last' = IF index < Len(visitor.code) THEN "pop" ELSE "pop raised"
    /\ UNCHANGED <<ast, res, prev, nvisits, stdout, genVars, mainVars>>

NextVisit ==
    \/ Visit
    \/ \E item \in PushItems : push(item)
    \/ \E index \in 0..MaxCode : pop(index)

SpecVisit == InitVisit /\ [][NextVisit]_vars

(***************************************************************************)
(* Claims about visit, checked under SpecVisit.                            *)
(***************************************************************************)
Visited == nvisits >= 1

\* $state.x: a member access whose base is the state root identifier
IsStateMember(node) ==
    /\ isinstance(node, "MemberAccessExpr")
    /\ node[2] = Ident("$state")

\* $state.x[a1]...[ak], k >= 1
RECURSIVE IsStateChain(_)
IsStateChain(node) ==
    /\ isinstance(node, "TableLookupExpr")
    /\ \/ IsStateMember(node[2])
       \/ IsStateChain(node[2])

RECURSIVE ChainMember(_)
ChainMember(node) ==
    IF IsStateMember(node) THEN AstStr(node[3]) ELSE ChainMember(node[2])

RECURSIVE ChainKeys(_)
ChainKeys(node) ==
    IF IsStateMember(node) THEN <<>>
    ELSE Append(ChainKeys(node[2]), node[3])

LoweredKeys(node) ==
    [i \in 1..Len(ChainKeys(node)) |-> visit(visitor, ChainKeys(node)[i])]

\* C2: every chain $state.x[a1]...[ak], k >= 1, lowers to the one map
\* reference IRMapRef("x", [lowered a1, ..., lowered ak]), never to a
\* nested "lookup" tuple.
C2_ChainIsOneMapRef ==
    (Visited /\ IsStateChain(ast)) =>
        res = IRMapRef(PyStr(ChainMember(ast)), LoweredKeys(ast))

\* C3: an assignment is rendered with "set-state-item" exactly when its
\* lowered left-hand side is an IRItemRef, with "set-state-map" exactly when
\* it is an IRMapRef, and with "set-variable" in every other case.
C3_AssignTemplateByLhs ==
    (Visited /\ isinstance(ast, "AssignStmt")) =>
        LET lhs == visit(visitor, ast[2])
        IN /\ res[1] = "text"
           /\ res[2] \in {"set-state-item", "set-state-map", "set-variable"}
           /\ res[3].lhs = lhs
           /\ (res[2] = "set-state-item") <=> isinstance(lhs, "IRItemRef")
           /\ (res[2] = "set-state-map") <=> isinstance(lhs, "IRMapRef")
           /\ (res[2] = "set-variable") <=>
                 ~(isinstance(lhs, "IRItemRef") \/ isinstance(lhs, "IRMapRef"))

C3_Witness ==
    /\ Visited
    /\ ast = AssignStmt(TableLookupExpr(StateCount, Ident("a")), Literal31)
    /\ res[2] = "set-state-map"

\* $msg.m, and what further member accesses and table lookups build on it
IsMsgMember(node) ==
    /\ isinstance(node, "MemberAccessExpr")
    /\ node[2] = Ident("$msg")

RECURSIVE MsgRooted(_)
MsgRooted(node) ==
    \/ IsMsgMember(node)
    \/ /\ iis(node, {"MemberAccessExpr", "TableLookupExpr"})
       /\ MsgRooted(node[2])

RECURSIVE MsgMember(_)
MsgMember(node) ==
    IF IsMsgMember(node) THEN AstStr(node[3]) ELSE MsgMember(node[2])

HasSubstring(s, sub) ==
    \E i \in 1..(Len(s) + 1) :
        /\ i + Len(sub) - 1 <= Len(s)
        /\ SubSeq(s, i, i + Len(sub) - 1) = sub

\* a string holding the text, or a tuple one of whose elements mentions it
RECURSIVE Mentions(_, _)
Mentions(x, text) ==
    CASE x[1] = "str"   -> HasSubstring(x[2], text)
      [] x[1] = "tuple" -> \E i \in 1..Len(x[2]) : Mentions(x[2][i], text)
      [] OTHER          -> FALSE

\* C4: $msg.m lowers to the text "info.m", and every member access or table
\* lookup built on it lowers to a fragment that holds "info.m"; none of them
\* lowers to an IRItemRef or an IRMapRef.
C4_MsgIsForwarded ==
    (Visited /\ MsgRooted(ast)) =>
        /\ ~iis(res, {"IRItemRef", "IRMapRef"})
        /\ iis(res, {"str", "tuple"})
        /\ Mentions(res, "info." \o MsgMember(ast))
        /\ IsMsgMember(ast) => res = PyStr("info." \o MsgMember(ast))

C4_Witness ==
    /\ Visited
    /\ ast = MemberAccessExpr(TableLookupExpr(MsgSender, StateCount), Ident("count"))
    /\ isinstance(res, "str")

\* C5: a call of visit leaves the visitor (its code list and its env) as it
\* was, and returns what the earlier call on the same node returned,
\* whatever was pushed to or popped from the code list in between.
C5_VisitIsPure ==
    [][last' = "visit" =>
          /\ visitor' = visitor
          /\ Visited => res' = res]_vars

C5_Witness ==
    /\ nvisits = 2
    /\ last = "visit"
    /\ visitor.code # <<>>
    /\ isinstance(ast, "AssignStmt")
    /\ res = prev

\* C8: a list or tuple of nodes lowers to a list of the same length whose
\* i-th element is the lowering of the i-th node; the else-if clauses of a
\* conditional are bound in source order, and an absent else branch is bound
\* to None, an empty one to the empty list.
C8_ListsKeepOrder ==
    /\ (Visited /\ iis(ast, {"list", "tuple"})) =>
          /\ isinstance(res, "list")
          /\ Len(res[2]) = Len(ast[2])
          /\ \A i \in 1..Len(ast[2]) : res[2][i] = visit(visitor, ast[2][i])
    /\ (Visited /\ isinstance(ast, "IfExpr")) =>
          /\ res[2] = "if-expr"
          /\ isinstance(res[3].else_if_clauses, "list")
          /\ Len(res[3].else_if_clauses[2]) = Len(ast[3][2])
          /\ \A i \in 1..Len(ast[3][2]) :
                res[3].else_if_clauses[2][i] = visit(visitor, ast[3][2][i])
          /\ (ast[4] = PyNone) <=> (res[3].else_body = PyNone)
          /\ (ast[4] = PyList(<<>>)) <=> (res[3].else_body = PyList(<<>>))

C8_Witness ==
    /\ Visited
    /\ ast = IfExpr(OtherAst("c1"),
                    PyList(<<OtherAst("c2"), OtherAst("c1")>>), PyNone)
    /\ res[3].else_if_clauses =
          PyList(<<PyStr("// Omitted: c2"), PyStr("// Omitted: c1")>>)
    /\ res[3].else_body = PyNone

\* C9: $state.count = 31 is rendered with "set-state-item" and the bindings
\* lhs = IRItemRef("count"), rhs = "31", lhs_is_ident = false,
\* rhs_is_item = false; for every assignment lhs_is_ident says that the
\* left-hand node is an identifier and rhs_is_item that the lowered
\* right-hand side is an IRItemRef.
C9_SetStateItemBindings ==
    /\ (Visited /\ ast = AssignStmt(StateCount, Literal31)) =>
          res = render("set-state-item",
                       [lhs          |-> IRItemRef(PyStr("count")),
                        rhs          |-> PyStr("31"),
                        lhs_is_ident |-> FALSE,
                        rhs_is_item  |-> FALSE])
    /\ (Visited /\ isinstance(ast, "AssignStmt")) =>
          /\ res[3].lhs_is_ident <=> isinstance(ast[2], "Ident")
          /\ res[3].rhs_is_item <=>
                isinstance(visit(visitor, ast[3]), "IRItemRef")

\* every IRMapRef inside a lowered value has at least one key
RECURSIVE MapRefsHaveKeys(_)
MapRefsHaveKeys(x) ==
    CASE x[1] = "IRMapRef"  -> /\ Len(x[3]) >= 1
                               /\ MapRefsHaveKeys(x[2])
                               /\ \A i \in 1..Len(x[3]) : MapRefsHaveKeys(x[3][i])
      [] x[1] = "IRItemRef" -> MapRefsHaveKeys(x[2])
      [] x[1] \in {"list", "tuple"} ->
              \A i \in 1..Len(x[2]) : MapRefsHaveKeys(x[2][i])
      [] x[1] = "text" /\ x[2] = "exec-fn" -> MapRefsHaveKeys(x[3].body)
      [] x[1] = "text" /\ x[2] = "if-expr" ->
              /\ MapRefsHaveKeys(x[3].if_clause)
              /\ MapRefsHaveKeys(x[3].else_if_clauses)
              /\ MapRefsHaveKeys(x[3].else_body)
      [] x[1] = "text" /\ x[2] \notin {"exec-fn", "if-expr"} ->
              /\ MapRefsHaveKeys(x[3].lhs)
              /\ MapRefsHaveKeys(x[3].rhs)
      [] OTHER -> TRUE

\* C10: every IRMapRef that visit produces, at the top of its result or
\* inside it, has a non-empty keys list.
C10_MapRefKeysNonEmpty == Visited => MapRefsHaveKeys(res)

C10_Witness ==
    /\ Visited
    /\ ast = TableLookupExpr(TableLookupExpr(StateCount, Ident("a")), MsgSender)
    /\ res[2][2] = IRMapRef(PyStr("count"), <<PyStr("a")>>)

(***************************************************************************)
(* ICodegen.generate_code over the context stack of env.                   *)
(*                                                                         *)
(* An entity is the base class ICodegen itself (_verify passes, _gen_code  *)
(* raises NotImplementedError) or an instance of a subclass, whose _verify *)
(* passes or raises VerificationError and whose _gen_code calls            *)
(* generate_code on other entities and then returns a text, returns None   *)
(* or raises GenerationError.  A frame is one active call of               *)
(* generate_code: the entity, the stack depth at entry, the line it is at, *)
(* the operations it has run and the code _gen_code gave it.  No frame     *)
(* catches an exception, so a raise ends every active call at once.        *)
(***************************************************************************)
BaseEntity == "ICodegen"
Entities   == {BaseEntity, "contract", "function"}
Texts      == {PyStr("fn f() {}")}

\* Env.push(item), Env.pop(): the context stack
env_push(stk, item) == Append(stk, item)
env_pop(stk)        == SubSeq(stk, 1, Len(stk) - 1)

Top == frames[Len(frames)]

SetTop(f) == [frames EXCEPT ![Len(frames)] = f]

ExitRecord(f, depth, how, by, returned) ==
    [self |-> f.self, entry |-> f.entry, depth |-> depth, how |-> how,
     raised_by |-> by,
     trace |-> f.trace, generated |-> f.code, returned |-> returned]

\* an exception raised by operation op of the innermost call: that call
\* ends in op, every call around it ends in its _gen_code
Unwind(op, depth) ==
    [i \in 1..Len(frames) |->
        LET by == IF i = Len(frames) THEN op ELSE "_gen_code"
            f  == [frames[i] EXCEPT !.trace = Append(@, by)]
        IN ExitRecord(f, depth, "raise", by, PyNone)]

InitGen ==
    /\ stack = <<>>
    /\ frames = <<>>
    /\ exits = <<>>
    /\ calls = 0
    /\ stdout = <<>>
    /\ last = "init"
    /\ IdleVisit
    /\ IdleMain

NewFrame(e) ==
    [self |-> e, entry |-> Len(stack), pc |-> "push", trace |-> <<>>,
     code |-> PyNone]

\* a caller outside any generate_code calls e.generate_code(env)
Call(e) ==
    /\ frames = <<>>
    /\ calls < MaxCalls
    /\ calls' = calls + 1
    /\ frames' = <<NewFrame(e)>>
    /\ exits' = <<>>
    /\ last' = "call"
    /\ UNCHANGED <<stack, stdout, visitVars, mainVars>>

\* a generate_code that goes from the push straight to _gen_code
Push_noverify ==
    /\ frames # <<>>
    /\ Top.pc = "push"
    /\ stack' = env_push(stack, Top.self)
    /\ frames' = SetTop([Top EXCEPT !.pc = "gen", !.trace = Append(@, "push")])
    /\ exits' = <<>>
    /\ last' = "push"
    /\ UNCHANGED <<calls, stdout, visitVars, mainVars>>

\* env.push(self)
Push ==
    /\ frames # <<>>
    /\ Top.pc = "push"
    /\ stack' = env_push(stack, Top.self)
    /\ frames' = SetTop([Top EXCEPT !.pc = "verify", !.trace = Append(@, "push")])
    /\ exits' = <<>>
    /\ last' = "push"
    /\ UNCHANGED <<calls, stdout, visitVars, mainVars>>

\* self._verify(env) returns
VerifyOk ==
    /\ frames # <<>>
    /\ Top.pc = "verify"
    /\ frames' = SetTop([Top EXCEPT !.pc = "gen", !.trace = Append(@, "_verify")])
    /\ exits' = <<>>
    /\ last' = "verify"
    /\ UNCHANGED <<stack, calls, stdout, visitVars, mainVars>>

\* self._verify(env) raises VerificationError (a subclass's _verify)
VerifyRaise ==
    /\ frames # <<>>
    /\ Top.pc = "verify"
    /\ Top.self # BaseEntity
    /\ exits' = Unwind("_verify", Len(stack))
    /\ frames' = <<>>
    /\ last' = "raise"
    /\ UNCHANGED <<stack, calls, stdout, visitVars, mainVars>>

\* inside self._gen_code(env): child.generate_code(env)
GenNested(child) ==
    /\ frames # <<>>
    /\ Top.pc = "gen"
    /\ Top.self # BaseEntity
    /\ Len(frames) <= MaxNest
    /\ frames' = Append(frames, NewFrame(child))
    /\ exits' = <<>>
    /\ last' = "nested"
    /\ UNCHANGED <<stack, calls, stdout, visitVars, mainVars>>

\* code = self._gen_code(env): a text, or None
GenReturn(code) ==
    /\ frames # <<>>
    /\ Top.pc = "gen"
    /\ Top.self # BaseEntity
    /\ frames' = SetTop([Top EXCEPT !.pc = "pop", !.code = code,
                                     !.trace = Append(@, "_gen_code")])
    /\ exits' = <<>>
    /\ last' = "gen"
    /\ UNCHANGED <<stack, calls, stdout, visitVars, mainVars>>

\* self._gen_code(env) raises: NotImplementedError of the base class, or an
\* error of a subclass's _gen_code
GenRaise ==
    /\ frames # <<>>
    /\ Top.pc = "gen"
    /\ exits' = Unwind("_gen_code", Len(stack))
    /\ frames' = <<>>
    /\ last' = "raise"
    /\ UNCHANGED <<stack, calls, stdout, visitVars, mainVars>>

\* env.pop()
Pop ==
    /\ frames # <<>>
    /\ Top.pc = "pop"
    /\ stack' = env_pop(stack)
    /\ frames' = SetTop([Top EXCEPT !.pc = "assert", !.trace = Append(@, "pop")])
    /\ exits' = <<>>
    /\ last' = "pop"
    /\ UNCHANGED <<calls, stdout, visitVars, mainVars>>

\* assert code is not None; return code
Return ==
    /\ frames # <<>>
    /\ Top.pc = "assert"
    /\ Top.code # PyNone
    /\ exits' = <<ExitRecord(Top, Len(stack), "return", "none", Top.code)>>
    /\ frames' = SubSeq(frames, 1, Len(frames) - 1)
    /\ last' = "return"
    /\ UNCHANGED <<stack, calls, stdout, visitVars, mainVars>>

\* assert code is not None fails: AssertionError
AssertFail ==
    /\ frames # <<>>
    /\ Top.pc = "assert"
    /\ Top.code = PyNone
    /\ exits' = Unwind("assert", Len(stack))
    /\ frames' = <<>>
    /\ last' = "raise"
    /\ UNCHANGED <<stack, calls, stdout, visitVars, mainVars>>

NextGen ==
    \/ \E e \in Entities : Call(e)
    \/ Push
    \/ VerifyOk
    \/ VerifyRaise
    \/ \E child \in Entities : GenNested(child)
    \/ \E code \in Texts \cup {PyNone} : GenReturn(code)
    \/ GenRaise
    \/ Pop
    \/ Return
    \/ AssertFail

SpecGen == InitGen /\ [][NextGen]_vars

(***************************************************************************)
(* Claims about generate_code, checked under SpecGen.                      *)
(***************************************************************************)
\* C1: when a call of generate_code exits, by a return or by an exception of
\* _verify, of _gen_code or of the assertion, nested or not, the context
\* stack is as deep as it was when the call was entered.
C1_StackBalancedOnExit ==
    \A i \in 1..Len(exits) : exits[i].depth = exits[i].entry

\* C6: a call runs push, _verify, _gen_code, pop in that order and then
\* returns: _gen_code starts only once _verify of the same entity has
\* returned, a call whose _verify raised has generated and returned no text,
\* and a return gives the text _gen_code produced, which is not None.
C6_VerifyThenGenerate ==
    /\ \A i \in 1..Len(frames) :
          LET f == frames[i]
          IN /\ f.pc = "push"   => f.trace = <<>>
             /\ f.pc = "verify" => f.trace = <<"push">>
             /\ f.pc = "gen"    => f.trace = <<"push", "_verify">>
             /\ f.pc = "pop"    => f.trace = <<"push", "_verify", "_gen_code">>
             /\ f.pc = "assert" => f.trace = <<"push", "_verify", "_gen_code", "pop">>
    /\ \A i \in 1..Len(exits) :
          LET x == exits[i]
          IN /\ x.how = "return" =>
                   /\ x.trace = <<"push", "_verify", "_gen_code", "pop">>
                   /\ x.returned # PyNone
                   /\ x.returned = x.generated
             /\ x.raised_by = "_verify" =>
                   /\ x.trace = <<"push", "_verify">>
                   /\ x.generated = PyNone
                   /\ x.returned = PyNone
             /\ x.raised_by = "_gen_code" =>
                   x.trace = <<"push", "_verify", "_gen_code">>

C6_Witness ==
    /\ Len(exits) = 1
    /\ Len(frames) = 1
    /\ exits[1].how = "return"
    /\ exits[1].returned \in Texts
    /\ exits[1].self = "function"
    /\ frames[1].self = "contract"

(***************************************************************************)
(* The top-level loop (main.py): print the unit of every contract          *)
(* definition of the parsed tree.                                          *)
(***************************************************************************)
ContractDefn(name) == <<"ContractDefn", name>>
ContractNames == {"A", "B"}
TreeNodes == {ContractDefn(n) : n \in ContractNames} \cup {OtherAst("import")}
Trees     == SeqUpTo(TreeNodes, MaxTree)

\* ast.collect_type(cls): the nodes of the class, in tree order
RECURSIVE collect_type(_, _)
collect_type(nodes, cls) ==
    IF nodes = <<>> THEN <<>>
    ELSE IF isinstance(Head(nodes), cls)
         THEN <<Head(nodes)>> \o collect_type(Tail(nodes), cls)
         ELSE collect_type(Tail(nodes), cls)

\* ContractCodegen.__init__: self.defn = contract_defn
ContractCodegen(contract_defn) == <<"ContractCodegen", contract_defn>>

\* codegen.gen_contract(): the emitted unit of the codegen's contract
gen_contract(cg) == <<"unit", cg[2]>>

InitMain ==
    /\ tree \in Trees
    /\ todo = <<>>
    /\ codegen = PyNone
    /\ stdout = <<>>
    /\ last = "init"
    /\ IdleVisit
    /\ IdleGen

\* for cd in ast.collect_type(ContractDefn): the iterator is made
CollectType ==
    /\ last = "init"
    /\ todo' = collect_type(tree, "ContractDefn")
    /\ last' = "collect"
    /\ UNCHANGED <<tree, codegen, stdout, visitVars, genVars>>

\* a print that leaves out a unit already printed
PrintUnit_dedup ==
    /\ last = "construct"
    /\ stdout' = IF \E i \in 1..Len(stdout) : stdout[i] = gen_contract(codegen)
                 THEN stdout
                 ELSE Append(stdout, gen_contract(codegen))
    /\ last' = "print"
    /\ UNCHANGED <<tree, todo, codegen, visitVars, genVars>>

\* the next cd; codegen = ContractCodegen(cd)
LoopNext ==
    /\ last \in {"collect", "print"}
    /\ todo # <<>>
    /\ codegen' = ContractCodegen(Head(todo))
    /\ todo' = Tail(todo)
    /\ last' = "construct"
    /\ UNCHANGED <<tree, stdout, visitVars, genVars>>

\* print(codegen.gen_contract())
PrintUnit ==
    /\ last = "construct"
    /\ stdout' = Append(stdout, gen_contract(codegen))
    /\ last' = "print"
    /\ UNCHANGED <<tree, todo, codegen, visitVars, genVars>>

\* the iterator is exhausted: the loop, and the program, end
LoopEnd ==
    /\ last \in {"collect", "print"}
    /\ todo = <<>>
    /\ last' = "done"
    /\ UNCHANGED <<tree, todo, codegen, stdout, visitVars, genVars>>

NextMain ==
    \/ CollectType
    \/ LoopNext
    \/ PrintUnit
    \/ LoopEnd

SpecMain == InitMain /\ [][NextMain]_vars

(***************************************************************************)
(* Claims about the top-level loop, checked under SpecMain.                *)
(***************************************************************************)
IsContract(node) == node[1] = "ContractDefn"

ContractsOf(nodes) == SelectSeq(nodes, IsContract)

====
